---- MODULE Spec2Model ----
(***************************************************************************)
(* Drop-in handling of systemd, src/shared/dropin.c:                       *)
(*   drop_in_file, write_drop_in, write_drop_in_format  (path builder and  *)
(*   writer) and unit_file_find_dropin_paths with its helpers              *)
(*   unit_file_find_dir / unit_file_find_dirs (drop-in resolver).          *)
(*                                                                         *)
(* C strings are sequences of one-character strings, so that joining,      *)
(* escaping and unit-name parsing are computed character by character.     *)
(* Error codes are the negative errno values the C code returns.           *)
(***************************************************************************)
EXTENDS Integers, Sequences, FiniteSets, TLC

VARIABLES
    \* ---- inputs of one unit_file_find_dropin_paths call
    original_root,      \* const char *original_root (<<>> is NULL)
    lookup_path,        \* char **lookup_path, in priority order
    unit_path_cache,    \* Set *unit_path_cache: [present, members]
    names,              \* Set *names
    order,              \* the order in which SET_FOREACH visits names
    \* ---- the file system as the canonicalizer sees it
    link,               \* TRUE: root /B is a symlink to root /A
    fs,                 \* canonical candidate path -> result of chase_symlinks
    \* ---- the call's own state
    pc,                 \* "scan" | "done"
    i, j,               \* position of SET_FOREACH / STRV_FOREACH
    dirs,               \* char **dirs (<<>> is NULL)
    ret,                \* the int the call returns
    ret_list,           \* *ret : [kind, files]
    \* ---- observation of the collaborators' calls
    log,                \* one entry per candidate path built by unit_file_find_dirs
    handed,             \* [called, dirs]: the argument conf_files_list_strv got
    \* ---- drop_in_file / write_drop_in
    fsDirs,             \* directories that exist
    fsFiles,            \* file path -> content, for the files that exist
    call                \* the last drop-in call: arguments and results

resolverVars == <<original_root, lookup_path, unit_path_cache, names, order,
                  link, fs, pc, i, j, dirs, ret, ret_list, log, handed>>
dropinVars == <<fsDirs, fsFiles, call>>
vars == <<original_root, lookup_path, unit_path_cache, names, order,
          link, fs, pc, i, j, dirs, ret, ret_list, log, handed,
          fsDirs, fsFiles, call>>

----------------------------------------------------------------------------
(* errno values used by dropin.c *)
ENOENT == 2
ENOMEM == 12
EINVAL == 22
ENAMETOOLONG == 36
\* "any other error" of chase_symlinks: EACCES
OtherChaseErrors == {-13}
\* an error conf_files_list_strv may return: EIO
ListerErrors == {-5}

(* bounds of the model *)
MaxLookups == 4    \* candidate directories looked up in one resolver call
MaxNames == 2      \* unit names in the set of one resolver call
MaxDepth == 2      \* nesting at which the model stops following unit_file_find_dirs
MaxFilenameLen == 5  \* FILENAME_MAX, scaled to the fragment names of the model

----------------------------------------------------------------------------
(* strings *)
Range(s) == {s[k] : k \in 1..Len(s)}

HasPrefix(s, pre) ==
    /\ Len(pre) <= Len(s)
    /\ SubSeq(s, 1, Len(pre)) = pre

\* strrchr: index of the last c in s, 0 when there is none
LastIndexOf(s, c) ==
    LET I == {k \in 1..Len(s) : s[k] = c}
    IN IF I = {} THEN 0 ELSE CHOOSE k \in I : \A m \in I : m <= k

\* index of the first c in s before position e, 0 when there is none
FirstIndexBefore(s, c, e) ==
    LET I == {k \in 1..Len(s) : k < e /\ s[k] = c}
    IN IF I = {} THEN 0 ELSE CHOOSE k \in I : \A m \in I : k <= m

----------------------------------------------------------------------------
(* unit names (unit-name.c) *)

\* unit_name_is_valid(n, flags): "prefix.type", "prefix@.type" or
\* "prefix@instance.type"; flags is a subset of {"PLAIN","INSTANCE","TEMPLATE"}
unit_name_is_valid(n, flags) ==
    LET e == LastIndexOf(n, ".")
        at == FirstIndexBefore(n, "@", e)
    IN /\ Len(n) > 0
       /\ e > 1
       /\ e < Len(n)
       /\ at # 1
       /\ \/ "PLAIN" \in flags /\ at = 0
          \/ "INSTANCE" \in flags /\ at > 0 /\ e > at + 1
          \/ "TEMPLATE" \in flags /\ at > 0 /\ e = at + 1

\* unit_name_template(f, &ret): strips the instance part; allocOk is whether
\* the allocation of the result succeeds
unit_name_template(f, allocOk) ==
    IF ~unit_name_is_valid(f, {"INSTANCE", "TEMPLATE"})
    THEN [r |-> -EINVAL, template |-> <<>>]
    ELSE IF ~allocOk
    THEN [r |-> -ENOMEM, template |-> <<>>]
    ELSE LET e == LastIndexOf(f, ".")
             at == FirstIndexBefore(f, "@", e)
         IN [r |-> 0, template |-> SubSeq(f, 1, at) \o SubSeq(f, e, Len(f))]

----------------------------------------------------------------------------
(* the inputs the model draws from *)
RootA == <<"/", "A">>
RootB == <<"/", "B">>

I1 == <<"f", "@", "a", ".", "s">>
I2 == <<"f", "@", "b", ".", "s">>
P1 == <<"g", ".", "s">>
P2 == <<"h", ".", "s">>
NameUniverse == {I1, I2, P1, P2}

dir_suffix == <<".", "d">>
file_suffix == <<".", "c">>

\* all sequences of distinct elements of S
Perms(S) ==
    {f \in [1..Cardinality(S) -> S] : \A a, b \in 1..Cardinality(S) : a # b => f[a] # f[b]}

\* lookup paths of distinct roots; the roots are interchangeable, so a single
\* root is RootA
LookupPaths == {<<>>, <<RootA>>, <<RootA, RootB>>, <<RootB, RootA>>}

IsInstance(n) == unit_name_is_valid(n, {"INSTANCE"})
TemplateOf(n) == unit_name_template(n, TRUE).template

\* the candidate names of a unit name: itself and, for an instance, its template
CandidateNames(n) == IF IsInstance(n) THEN {n, TemplateOf(n)} ELSE {n}

CandidatePath(unit_path, name) == unit_path \o <<"/">> \o name \o dir_suffix

\* candidate directories one call looks at
Candidates(lp, ns) ==
    {CandidatePath(p, c) : p \in Range(lp), c \in UNION {CandidateNames(n) : n \in ns}}

\* number of candidate lookups of one call
Lookups(lp, ns) ==
    Len(lp) * Cardinality({<<n, c>> \in ns \X UNION {CandidateNames(m) : m \in ns} :
                              c \in CandidateNames(n)})

----------------------------------------------------------------------------
(* chase_symlinks (fs-util.c): the canonicalizer *)

\* the path with symlinks resolved: with link, /B is a symlink to /A
Canonical(lk, path) ==
    IF lk /\ HasPrefix(path, RootB)
    THEN RootA \o SubSeq(path, Len(RootB) + 1, Len(path))
    ELSE path

ChaseResults == {0, -ENOENT, -ENAMETOOLONG} \cup OtherChaseErrors

chase_symlinks(path, root) ==
    LET c == Canonical(link, path)
    IN [r |-> fs[c], chased |-> IF fs[c] >= 0 THEN root \o c ELSE <<>>]

----------------------------------------------------------------------------
\* as unit_file_find_dir, but -ENOENT is returned to the caller, not ignored
unit_file_find_dir_ReturnsEnoent(root, path, ds, pushOk) ==
    LET c == chase_symlinks(path, root)
    IN IF c.r = -ENAMETOOLONG
       THEN [r |-> 0, dirs |-> ds, cr |-> c.r, pushed |-> FALSE]
       ELSE IF c.r < 0
       THEN [r |-> c.r, dirs |-> ds, cr |-> c.r, pushed |-> FALSE]
       ELSE IF ~pushOk
       THEN [r |-> -ENOMEM, dirs |-> ds, cr |-> c.r, pushed |-> FALSE]
       ELSE [r |-> 0, dirs |-> Append(ds, c.chased), cr |-> c.r, pushed |-> TRUE]

\* as unit_file_find_dir, but -ENAMETOOLONG is returned to the caller, not ignored
unit_file_find_dir_ReturnsNameTooLong(root, path, ds, pushOk) ==
    LET c == chase_symlinks(path, root)
    IN IF c.r = -ENOENT
       THEN [r |-> 0, dirs |-> ds, cr |-> c.r, pushed |-> FALSE]
       ELSE IF c.r < 0
       THEN [r |-> c.r, dirs |-> ds, cr |-> c.r, pushed |-> FALSE]
       ELSE IF ~pushOk
       THEN [r |-> -ENOMEM, dirs |-> ds, cr |-> c.r, pushed |-> FALSE]
       ELSE [r |-> 0, dirs |-> Append(ds, c.chased), cr |-> c.r, pushed |-> TRUE]

\* as unit_file_find_dir, but the raw path is pushed besides the canonical one
unit_file_find_dir_PushesPathToo(root, path, ds, pushOk) ==
    LET c == chase_symlinks(path, root)
    IN IF c.r = -ENOENT
       THEN [r |-> 0, dirs |-> ds, cr |-> c.r, pushed |-> FALSE]
       ELSE IF c.r = -ENAMETOOLONG
       THEN [r |-> 0, dirs |-> ds, cr |-> c.r, pushed |-> FALSE]
       ELSE IF c.r < 0
       THEN [r |-> c.r, dirs |-> ds, cr |-> c.r, pushed |-> FALSE]
       ELSE IF ~pushOk
       THEN [r |-> -ENOMEM, dirs |-> ds, cr |-> c.r, pushed |-> FALSE]
       ELSE [r |-> 0, dirs |-> Append(Append(ds, c.chased), root \o path),
             cr |-> c.r, pushed |-> TRUE]

(* unit_file_find_dir, dropin.c:107-135.  pushOk: strv_push can allocate.   *)
(* cr and pushed report what happened, for the log.                        *)
unit_file_find_dir(root, path, ds, pushOk) ==
    LET c == chase_symlinks(path, root)
    IN IF c.r = -ENOENT
       THEN [r |-> 0, dirs |-> ds, cr |-> c.r, pushed |-> FALSE]
       ELSE IF c.r = -ENAMETOOLONG
       THEN [r |-> 0, dirs |-> ds, cr |-> c.r, pushed |-> FALSE]
       ELSE IF c.r < 0
       THEN [r |-> c.r, dirs |-> ds, cr |-> c.r, pushed |-> FALSE]
       ELSE IF ~pushOk
       THEN [r |-> -ENOMEM, dirs |-> ds, cr |-> c.r, pushed |-> FALSE]
       ELSE [r |-> 0, dirs |-> Append(ds, c.chased), cr |-> c.r, pushed |-> TRUE]

\* The allocations of one unit_file_find_dirs call tree, in the order they are
\* made: strv_push at nesting d is site 2d+1, unit_name_template at nesting d is
\* site 2d+2.  alloc is the site that fails for lack of memory, 0 for none: the
\* first failure ends the call tree, so one failing site covers every outcome.
Allocs == 0..3
PushOk(alloc, depth) == alloc # 2 * depth + 1
TmplOk(alloc, depth) == alloc # 2 * depth + 2

\* dropin.c:154: !unit_path_cache || set_get(unit_path_cache, path)
CacheHit_IgnoresCache(cache, path) == TRUE

CacheHit(cache, path) == ~cache.present \/ path \in cache.members

\* as unit_file_find_dirs, but the recursive call is handed name, not template
RECURSIVE unit_file_find_dirs_RecursesOnName(_, _, _, _, _, _, _, _)
unit_file_find_dirs_RecursesOnName(root, cache, unit_path, name, suffix, st, alloc, depth) ==
    LET path == unit_path \o <<"/">> \o name \o suffix
        checked == CacheHit(cache, path)
        fd == IF checked
              THEN unit_file_find_dir(root, path, st.dirs, PushOk(alloc, depth))
              ELSE [r |-> 0, dirs |-> st.dirs, cr |-> 0, pushed |-> FALSE]
        entry == [unit_path |-> unit_path, name |-> name, path |-> path,
                  checked |-> checked, cr |-> fd.cr, pushed |-> fd.pushed,
                  depth |-> depth]
        st1 == [dirs |-> fd.dirs, log |-> Append(st.log, entry), depth |-> depth]
    IN IF fd.r < 0
       THEN [r |-> fd.r, st |-> st1]
       ELSE IF unit_name_is_valid(name, {"INSTANCE"})
       THEN LET tm == unit_name_template(name, TmplOk(alloc, depth))
            IN IF tm.r < 0
               THEN [r |-> tm.r, st |-> st1]
               ELSE IF depth >= MaxDepth
               THEN [r |-> 0, st |-> [st1 EXCEPT !.depth = depth + 1]]
               ELSE unit_file_find_dirs_RecursesOnName(root, cache, unit_path, name,
                                                       suffix, st1, alloc, depth + 1)
       ELSE [r |-> 0, st |-> st1]

(* unit_file_find_dirs, dropin.c:137-173.  st = [dirs, log, depth]: the     *)
(* directory list, the log of candidates and the deepest nesting reached.  *)
RECURSIVE unit_file_find_dirs(_, _, _, _, _, _, _, _)
unit_file_find_dirs(root, cache, unit_path, name, suffix, st, alloc, depth) ==
    LET path == unit_path \o <<"/">> \o name \o suffix
        checked == CacheHit(cache, path)
        fd == IF checked
              THEN unit_file_find_dir(root, path, st.dirs, PushOk(alloc, depth))
              ELSE [r |-> 0, dirs |-> st.dirs, cr |-> 0, pushed |-> FALSE]
        entry == [unit_path |-> unit_path, name |-> name, path |-> path,
                  checked |-> checked, cr |-> fd.cr, pushed |-> fd.pushed,
                  depth |-> depth]
        st1 == [dirs |-> fd.dirs, log |-> Append(st.log, entry), depth |-> depth]
    IN IF fd.r < 0
       THEN [r |-> fd.r, st |-> st1]
       ELSE IF unit_name_is_valid(name, {"INSTANCE"})
       THEN LET tm == unit_name_template(name, TmplOk(alloc, depth))
            IN IF tm.r < 0
               THEN [r |-> tm.r, st |-> st1]
               ELSE IF depth >= MaxDepth
               THEN [r |-> 0, st |-> [st1 EXCEPT !.depth = depth + 1]]
               ELSE unit_file_find_dirs(root, cache, unit_path, tm.template,
                                        suffix, st1, alloc, depth + 1)
       ELSE [r |-> 0, st |-> st1]

----------------------------------------------------------------------------
(* conf_files_list_strv (conf-files.c): fails, or lists the files of the   *)
(* directories; which files they hold is the file system's choice          *)
ListerResults(ds) ==
    {[r |-> e, files |-> <<>>] : e \in ListerErrors}
    \cup {[r |-> 0, files |-> <<>>],
          [r |-> 0, files |-> <<Head(ds) \o <<"/", "x">> \o file_suffix>>]}

----------------------------------------------------------------------------
(* unit_file_find_dropin_paths, dropin.c:175-205 *)

ScanDone == i > Len(order) \/ Len(lookup_path) = 0

\* STRV_FOREACH(p, lookup_path), dropin.c:192: the k-th root visited
strv_foreach_LastFirst(l, k) == l[Len(l) + 1 - k]

strv_foreach(l, k) == l[k]

\* one iteration of STRV_FOREACH inside SET_FOREACH (dropin.c:191-193);
\* the return value of unit_file_find_dirs is dropped
ScanPair ==
    /\ pc = "scan"
    /\ ~ScanDone
    /\ \E alloc \in Allocs :
          LET t == order[i]
              p == strv_foreach(lookup_path, j)
              res == unit_file_find_dirs(original_root, unit_path_cache, p, t,
                                         dir_suffix,
                                         [dirs |-> dirs, log |-> <<>>, depth |-> 0],
                                         alloc, 0)
              tagged == [k \in 1..Len(res.st.log) |->
                            [t |-> t, root |-> p, r |-> res.r,
                             maxdepth |-> res.st.depth,
                             e |-> res.st.log[k]]]
          IN /\ dirs' = res.st.dirs
             /\ log' = log \o tagged
    /\ IF j < Len(lookup_path)
       THEN j' = j + 1 /\ i' = i
       ELSE j' = 1 /\ i' = i + 1
    /\ UNCHANGED <<original_root, lookup_path, unit_path_cache, names, order,
                   link, fs, pc, ret, ret_list, handed>>
    /\ UNCHANGED dropinVars

\* dropin.c:195-198
ReturnEmpty ==
    /\ pc = "scan"
    /\ ScanDone
    /\ dirs = <<>>
    /\ ret_list' = [kind |-> "NULL", files |-> <<>>]
    /\ ret' = 0
    /\ pc' = "done"
    /\ UNCHANGED <<original_root, lookup_path, unit_path_cache, names, order,
                   link, fs, i, j, dirs, log, handed>>
    /\ UNCHANGED dropinVars

\* as ListFiles, but the lister's return value is handed on as it is
ListFiles_ReturnsListerValue ==
    /\ pc = "scan"
    /\ ScanDone
    /\ dirs # <<>>
    /\ \E l \in ListerResults(dirs) :
          /\ handed' = [called |-> TRUE, dirs |-> dirs, r |-> l.r, files |-> l.files]
          /\ ret' = l.r
          /\ IF l.r < 0
             THEN UNCHANGED ret_list
             ELSE ret_list' = [kind |-> "list", files |-> l.files]
    /\ pc' = "done"
    /\ UNCHANGED <<original_root, lookup_path, unit_path_cache, names, order,
                   link, fs, i, j, dirs, log>>
    /\ UNCHANGED dropinVars

\* as ListFiles, but the lister's failure is not looked at
ListFiles_IgnoresListerError ==
    /\ pc = "scan"
    /\ ScanDone
    /\ dirs # <<>>
    /\ \E l \in ListerResults(dirs) :
          /\ handed' = [called |-> TRUE, dirs |-> dirs, r |-> l.r, files |-> l.files]
          /\ ret' = 1
          /\ ret_list' = [kind |-> "list", files |-> l.files]
    /\ pc' = "done"
    /\ UNCHANGED <<original_root, lookup_path, unit_path_cache, names, order,
                   link, fs, i, j, dirs, log>>
    /\ UNCHANGED dropinVars

\* dropin.c:200-204
ListFiles ==
    /\ pc = "scan"
    /\ ScanDone
    /\ dirs # <<>>
    /\ \E l \in ListerResults(dirs) :
          /\ handed' = [called |-> TRUE, dirs |-> dirs, r |-> l.r, files |-> l.files]
          /\ IF l.r < 0
             THEN /\ ret' = l.r
                  /\ UNCHANGED ret_list
             ELSE /\ ret' = 1
                  /\ ret_list' = [kind |-> "list", files |-> l.files]
    /\ pc' = "done"
    /\ UNCHANGED <<original_root, lookup_path, unit_path_cache, names, order,
                   link, fs, i, j, dirs, log>>
    /\ UNCHANGED dropinVars

----------------------------------------------------------------------------
(* drop_in_file, dropin.c:31-65 *)

Digits == <<"0", "1", "2", "3", "4", "5", "6", "7", "8", "9">>

\* sprintf(prefix, "%u", level)
RECURSIVE Decimal(_)
Decimal(n) ==
    IF n < 10 THEN <<Digits[n + 1]>>
    ELSE Decimal(n \div 10) \o <<Digits[(n % 10) + 1]>>

\* character codes of the characters fragment names are made of
CharCode == [c \in {"a", "b", ".", "/", "\\"} |->
                CASE c = "a" -> 97 [] c = "b" -> 98 [] c = "." -> 46
                  [] c = "/" -> 47 [] c = "\\" -> 92]

HexDigits == <<"0", "1", "2", "3", "4", "5", "6", "7", "8", "9",
               "a", "b", "c", "d", "e", "f">>
hexchar(x) == HexDigits[(x % 16) + 1]

\* xescape(s, bad) (escape.c): every character of bad, and the backslash,
\* becomes \xHH
RECURSIVE xescape(_, _)
xescape(s, bad) ==
    IF s = <<>> THEN <<>>
    ELSE LET c == Head(s)
         IN (IF c = "\\" \/ c \in bad
             THEN <<"\\", "x", hexchar(CharCode[c] \div 16), hexchar(CharCode[c])>>
             ELSE <<c>>)
            \o xescape(Tail(s), bad)

\* filename_is_valid (path-util.c)
filename_is_valid(p) ==
    /\ p # <<>>
    /\ p # <<".">>
    /\ p # <<".", ".">>
    /\ "/" \notin Range(p)
    /\ Len(p) <= MaxFilenameLen

\* drop_in_file joining the name as given, not its escaped form
drop_in_file_JoinsRawName(dir, unit, level, name, alloc) ==
    LET prefix == Decimal(level)
        b == xescape(name, {"/", "."})
        p == dir \o <<"/">> \o unit \o <<".", "d">>
        q == p \o <<"/">> \o prefix \o <<"-">> \o name \o <<".", "c", "o", "n", "f">>
    IN IF alloc = 1 THEN [r |-> -ENOMEM, p |-> <<>>, q |-> <<>>]
       ELSE IF ~filename_is_valid(b) THEN [r |-> -EINVAL, p |-> <<>>, q |-> <<>>]
       ELSE IF alloc = 2 THEN [r |-> -ENOMEM, p |-> <<>>, q |-> <<>>]
       ELSE IF alloc = 3 THEN [r |-> -ENOMEM, p |-> <<>>, q |-> <<>>]
       ELSE [r |-> 0, p |-> p, q |-> q]

\* The allocations of drop_in_file in order: 1 xescape, 2 strjoin of p,
\* 3 strjoin of q.  alloc is the one that fails, 0 for none.  An empty p, q
\* stands for an output pointer the call left alone.
drop_in_file(dir, unit, level, name, alloc) ==
    LET prefix == Decimal(level)
        b == xescape(name, {"/", "."})
        p == dir \o <<"/">> \o unit \o <<".", "d">>
        q == p \o <<"/">> \o prefix \o <<"-">> \o b \o <<".", "c", "o", "n", "f">>
    IN IF alloc = 1 THEN [r |-> -ENOMEM, p |-> <<>>, q |-> <<>>]
       ELSE IF ~filename_is_valid(b) THEN [r |-> -EINVAL, p |-> <<>>, q |-> <<>>]
       ELSE IF alloc = 2 THEN [r |-> -ENOMEM, p |-> <<>>, q |-> <<>>]
       ELSE IF alloc = 3 THEN [r |-> -ENOMEM, p |-> <<>>, q |-> <<>>]
       ELSE [r |-> 0, p |-> p, q |-> q]

----------------------------------------------------------------------------
(* write_drop_in, dropin.c:67-84, and its collaborators *)

\* the directories on the way to path p below the file system's root
RECURSIVE Ancestors(_)
Ancestors(p) ==
    LET k == LastIndexOf(p, "/")
    IN IF k <= 1 THEN <<p>> ELSE Append(Ancestors(SubSeq(p, 1, k - 1)), p)

\* mkdir_p(p, 0755) (mkdir.c): makes the missing directories from the top
\* down and stops at the first it cannot make; n is how many of the
\* directories on the way it gets through
mkdir_p(p, ds, n) ==
    LET chain == Ancestors(p)
        made == {chain[k] : k \in 1..n}
    IN [r |-> IF Range(chain) \subseteq ds \cup made THEN 0 ELSE -13,
        dirs |-> ds \cup made]

\* write_string_file_atomic_label(q, data) (fileio-label.c): the full content
\* becomes visible at q, or q is left as it was
write_string_file_atomic_label(q, data, ds, files, ok) ==
    LET k == LastIndexOf(q, "/")
        parent == SubSeq(q, 1, k - 1)
    IN IF parent \notin ds THEN [r |-> -ENOENT, files |-> files]
       ELSE IF ~ok THEN [r |-> -28, files |-> files]
       ELSE [r |-> 0,
             files |-> [f \in DOMAIN files \cup {q} |-> IF f = q THEN data ELSE files[f]]]

\* write_drop_in dropping the result of the write, as it drops mkdir_p's
write_drop_in_IgnoresWriteError(dir, unit, level, name, data, ds, files, alloc, n, ok) ==
    LET d == drop_in_file(dir, unit, level, name, alloc)
    IN IF d.r < 0
       THEN [r |-> d.r, dirs |-> ds, files |-> files, p |-> d.p, q |-> d.q]
       ELSE LET m == mkdir_p(d.p, ds, n)
                w == write_string_file_atomic_label(d.q, data, m.dirs, files, ok)
            IN [r |-> 0, dirs |-> m.dirs, files |-> w.files, p |-> d.p, q |-> d.q]

write_drop_in(dir, unit, level, name, data, ds, files, alloc, n, ok) ==
    LET d == drop_in_file(dir, unit, level, name, alloc)
    IN IF d.r < 0
       THEN [r |-> d.r, dirs |-> ds, files |-> files, p |-> d.p, q |-> d.q]
       ELSE LET m == mkdir_p(d.p, ds, n)
                w == write_string_file_atomic_label(d.q, data, m.dirs, files, ok)
            IN [r |-> w.r, dirs |-> m.dirs, files |-> w.files, p |-> d.p, q |-> d.q]

\* vasprintf(&p, format, ap) with one %s argument
RECURSIVE vasprintf(_, _)
vasprintf(format, arg) ==
    IF format = <<>> THEN <<>>
    ELSE IF Len(format) >= 2 /\ format[1] = "%" /\ format[2] = "s"
    THEN arg \o vasprintf(SubSeq(format, 3, Len(format)), arg)
    ELSE <<Head(format)>> \o vasprintf(Tail(format), arg)

\* write_drop_in_format, dropin.c:86-105; fmtOk: vasprintf can allocate
write_drop_in_format(dir, unit, level, name, format, arg, ds, files, fmtOk, alloc, n, ok) ==
    IF ~fmtOk
    THEN [r |-> -ENOMEM, dirs |-> ds, files |-> files, p |-> <<>>, q |-> <<>>,
          data |-> <<>>]
    ELSE LET p == vasprintf(format, arg)
             w == write_drop_in(dir, unit, level, name, p, ds, files, alloc, n, ok)
         IN [r |-> w.r, dirs |-> w.dirs, files |-> w.files, p |-> w.p, q |-> w.q,
             data |-> p]

(* the inputs the drop-in calls are made with; call records the last call, its
   result, and in dirs0, files0 the file system it was made on *)
DropinDir == <<"/", "r">>
DropinUnit == <<"u", ".", "s">>
Levels == {0, 50}
FragmentNames == {<<>>, <<"a">>, <<"a", ".">>, <<"/", "\\">>}
Contents == {<<"x">>, <<"y", "z">>}
Formats == {<<"k", "=", "%", "s">>}
FormatArgs == {<<"v">>}

DropInFile ==
    /\ call.op = "start"
    /\ \E level \in Levels, name \in FragmentNames, alloc \in 0..3 :
          LET d == drop_in_file(DropinDir, DropinUnit, level, name, alloc)
          IN call' = [op |-> "drop_in_file", dir |-> DropinDir, unit |-> DropinUnit,
                      level |-> level, name |-> name, data |-> <<>>,
                      alloc |-> alloc, r |-> d.r, p |-> d.p, q |-> d.q,
                      dirs0 |-> fsDirs, files0 |-> fsFiles]
    /\ UNCHANGED <<fsDirs, fsFiles>>
    /\ UNCHANGED resolverVars

WriteDropIn ==
    /\ call.op = "start"
    /\ \E level \in Levels, name \in FragmentNames, data \in Contents,
          alloc \in 0..3, n \in 0..Len(Ancestors(DropinDir)) + 1, ok \in BOOLEAN :
          LET w == write_drop_in(DropinDir, DropinUnit, level, name, data,
                                 fsDirs, fsFiles, alloc, n, ok)
          IN /\ fsDirs' = w.dirs
             /\ fsFiles' = w.files
             /\ call' = [op |-> "write_drop_in", dir |-> DropinDir, unit |-> DropinUnit,
                         level |-> level, name |-> name, data |-> data,
                         alloc |-> alloc, r |-> w.r, p |-> w.p, q |-> w.q,
                         dirs0 |-> fsDirs, files0 |-> fsFiles]
    /\ UNCHANGED resolverVars

WriteDropInFormat ==
    /\ call.op = "start"
    /\ \E level \in Levels, name \in FragmentNames, format \in Formats,
          arg \in FormatArgs, fmtOk \in BOOLEAN,
          alloc \in 0..3, n \in 0..Len(Ancestors(DropinDir)) + 1, ok \in BOOLEAN :
          LET w == write_drop_in_format(DropinDir, DropinUnit, level, name, format, arg,
                                        fsDirs, fsFiles, fmtOk, alloc, n, ok)
          IN /\ fsDirs' = w.dirs
             /\ fsFiles' = w.files
             /\ call' = [op |-> "write_drop_in_format", dir |-> DropinDir,
                         unit |-> DropinUnit, level |-> level, name |-> name,
                         data |-> w.data, alloc |-> alloc, r |-> w.r,
                         p |-> w.p, q |-> w.q,
                         dirs0 |-> fsDirs, files0 |-> fsFiles]
    /\ UNCHANGED resolverVars

DropinIdle ==
    /\ fsDirs = {}
    /\ fsFiles = <<>>
    /\ call = [op |-> "none"]

Init ==
    /\ original_root = <<>>
    /\ lookup_path \in LookupPaths
    /\ names \in {ns \in SUBSET NameUniverse :
                      /\ Cardinality(ns) <= MaxNames
                      /\ Lookups(lookup_path, ns) <= MaxLookups}
    /\ order \in Perms(names)
    /\ link \in (IF Len(lookup_path) = 2 THEN BOOLEAN ELSE {FALSE})
    /\ unit_path_cache \in
          {[present |-> FALSE, members |-> {}]}
          \cup {[present |-> TRUE, members |-> m] : m \in SUBSET Candidates(lookup_path, names)}
    /\ fs \in [{Canonical(link, c) : c \in Candidates(lookup_path, names)} -> ChaseResults]
    \* a directory no cached path leads to is never handed to the canonicalizer:
    \* its entry is fixed to "exists", the case in which the cache matters
    /\ \A c \in Candidates(lookup_path, names) :
          (/\ unit_path_cache.present
           /\ \A c2 \in Candidates(lookup_path, names) :
                 Canonical(link, c2) = Canonical(link, c) => c2 \notin unit_path_cache.members)
          => fs[Canonical(link, c)] = 0
    /\ pc = "scan"
    /\ i = 1
    /\ j = 1
    /\ dirs = <<>>
    /\ ret = 0
    /\ ret_list = [kind |-> "unset", files |-> <<>>]
    /\ log = <<>>
    /\ handed = [called |-> FALSE, dirs |-> <<>>, r |-> 0, files |-> <<>>]
    /\ DropinIdle

Next == ScanPair \/ ReturnEmpty \/ ListFiles

Spec == Init /\ [][Next]_vars

ResolverIdle ==
    /\ original_root = <<>>
    /\ lookup_path = <<>>
    /\ names = {}
    /\ order = <<>>
    /\ link = FALSE
    /\ unit_path_cache = [present |-> FALSE, members |-> {}]
    /\ fs = <<>>
    /\ pc = "idle"
    /\ i = 1
    /\ j = 1
    /\ dirs = <<>>
    /\ ret = 0
    /\ ret_list = [kind |-> "unset", files |-> <<>>]
    /\ log = <<>>
    /\ handed = [called |-> FALSE, dirs |-> <<>>, r |-> 0, files |-> <<>>]

\* the paths a drop-in file of the model's inputs can have
DropinPaths ==
    {d.q : d \in {x \in {drop_in_file(DropinDir, DropinUnit, level, name, 0) :
                              level \in Levels, name \in FragmentNames} : x.r = 0}}

\* One call is made, on a file system where the directories on the way to the
\* drop-in directory exist up to some depth and, when they all exist, a
\* drop-in file may already be there.
DropinInit ==
    /\ ResolverIdle
    /\ \E n \in 0..Len(Ancestors(DropinDir \o <<"/">> \o DropinUnit \o <<".", "d">>)) :
          LET chain == Ancestors(DropinDir \o <<"/">> \o DropinUnit \o <<".", "d">>)
          IN /\ fsDirs = {chain[k] : k \in 1..n}
             /\ fsFiles \in {<<>>} \cup
                   (IF n = Len(chain)
                    THEN {[f \in {q} |-> c] : q \in DropinPaths, c \in Contents}
                    ELSE {})
    /\ call = [op |-> "start", dir |-> <<>>, unit |-> <<>>, level |-> 0, name |-> <<>>,
               data |-> <<>>, alloc |-> 0, r |-> 0, p |-> <<>>, q |-> <<>>,
               dirs0 |-> fsDirs, files0 |-> fsFiles]

DropinNext == DropInFile \/ WriteDropIn \/ WriteDropInFormat

DropinSpec == DropinInit /\ [][DropinNext]_vars

----------------------------------------------------------------------------
(* Properties of the resolver, stated over the state a call ends in.       *)

Done == pc = "done"

Pairs == names \X Range(lookup_path)

\* priority of a root: its position in lookup_path
Priority(root) == CHOOSE k \in 1..Len(lookup_path) : lookup_path[k] = root

\* log entries of one (name, root) pair: of the name's own directory
\* (nesting 0) and of its template's (nesting 1)
EntriesOf(t, root) == {k \in 1..Len(log) : log[k].t = t /\ log[k].root = root}
NameEntries(t, root) == {k \in EntriesOf(t, root) : log[k].e.depth = 0}
TemplateEntries(t, root) == {k \in EntriesOf(t, root) : log[k].e.depth = 1}

InCache(path) == ~unit_path_cache.present \/ path \in unit_path_cache.members
ChaseOf(path) == fs[Canonical(link, path)]
ChasedDir(path) == original_root \o Canonical(link, path)

\* the position in dirs of the directory log entry k pushed
DirIndex(k) == Cardinality({m \in 1..k : log[m].e.pushed})

\* dirs holds exactly the directories the logged lookups pushed, in that order
DirsFollowLog ==
    /\ Len(dirs) = DirIndex(Len(log))
    /\ \A k \in 1..Len(log) :
          log[k].e.pushed => dirs[DirIndex(k)] = ChasedDir(log[k].e.path)

\* the scan of the pair ran out of memory
PairOom(t, root) == \E k \in EntriesOf(t, root) : log[k].r = -ENOMEM

\* the name's own lookup let the scan of the pair go on to the template
NameLookupPassed(k) ==
    \/ ~log[k].e.checked
    \/ log[k].e.cr \in {-ENOENT, -ENAMETOOLONG}
    \/ log[k].e.pushed

\* the call's answer is the lister's: its files with 1, or its error
AnswerIsListers ==
    /\ handed.called
    /\ handed.dirs = dirs
    /\ IF handed.r < 0
       THEN ret = handed.r
       ELSE ret = 1 /\ ret_list = [kind |-> "list", files |-> handed.files]

(* ---- C1 ---- *)
C1_Case(t, root) ==
    /\ IsInstance(t)
    /\ \/ ChaseOf(CandidatePath(root, t)) = -ENOENT
       \/ ~InCache(CandidatePath(root, t))
    /\ ChaseOf(CandidatePath(root, TemplateOf(t))) = 0
    /\ InCache(CandidatePath(root, TemplateOf(t)))

C1_Fallback(t, root) ==
    /\ \E k \in TemplateEntries(t, root) :
          /\ log[k].e.pushed
          /\ handed.dirs[DirIndex(k)] = ChasedDir(CandidatePath(root, TemplateOf(t)))
    /\ AnswerIsListers

C2_LookedUp(S, path) ==
    \E k \in S :
       /\ log[k].e.path = path
       /\ log[k].e.checked = InCache(path)
       /\ (InCache(path) /\ ChaseOf(path) = 0)
             => (log[k].e.pushed /\ handed.called /\ handed.dirs = dirs)

Canonicalized(path) == \E k \in 1..Len(log) : log[k].e.path = path /\ log[k].e.checked

\* C3 as claimed: the canonicalizer is invoked on a candidate path (of the
\* name and of its template) if and only if the path is in the supplied cache,
\* and on every candidate path when there is no cache; a path absent from the
\* cache is never collected.
C3_Original ==
    Done => \A path \in Candidates(lookup_path, names) :
               /\ Canonicalized(path) <=> InCache(path)
               /\ ~InCache(path) =>
                     \A k \in 1..Len(log) : log[k].e.path = path => ~log[k].e.pushed

\* what holds of every candidate path the scan built so far
C3_Gate ==
    /\ \A k \in 1..Len(log) :
          /\ log[k].e.path \in Candidates(lookup_path, names)
          /\ log[k].e.checked <=> InCache(log[k].e.path)
          /\ ~log[k].e.checked => (~log[k].e.pushed /\ log[k].e.cr = 0)
          /\ (~log[k].e.checked /\ (~IsInstance(log[k].t) \/ log[k].e.depth = 1))
                => log[k].r = 0
    /\ Done =>
          \A <<t, root>> \in Pairs :
             /\ Canonicalized(CandidatePath(root, t)) <=> InCache(CandidatePath(root, t))
             /\ (/\ IsInstance(t)
                 /\ InCache(CandidatePath(root, TemplateOf(t)))
                 /\ \E k \in NameEntries(t, root) : NameLookupPassed(k)
                 /\ ~PairOom(t, root))
                   => Canonicalized(CandidatePath(root, TemplateOf(t)))

\* C3, amended: with a cache, the canonicalizer is invoked on a candidate path
\* only if the path is in the cache; a path absent from the cache is skipped
\* without error and its lookup collects nothing.  A path in the cache (any
\* path, without a cache) is canonicalized when the scan reaches it: the name's
\* own path always, the template's path unless the name's own lookup ended the
\* pair (an error other than not-found or name-too-long) or an allocation
\* failed.  The cache is never modified.
C3_CacheGating ==
    /\ []C3_Gate
    /\ [][unit_path_cache' = unit_path_cache]_vars

\* a call with a cache that excludes an existing directory and admits another
C3_Witness ==
    /\ Done
    /\ unit_path_cache.present
    /\ \E k1, k2 \in 1..Len(log) :
          /\ ~log[k1].e.checked
          /\ ChaseOf(log[k1].e.path) = 0
          /\ log[k2].e.checked
          /\ log[k2].e.pushed
    /\ Len(dirs) = 1

(* ---- C4 ---- *)
\* C4: a call that collected no directory returns 0 with *ret = NULL and does
\* not invoke the lister (so with no root or no name); a call that collected
\* one returns 1 with the lister's output when the lister succeeds, even an
\* empty one; 0 and 1 tell "no directory" from "directories found".
C4_EmptyResult ==
    Done =>
      /\ DirsFollowLog
      /\ dirs = <<>> =>
            /\ ret = 0
            /\ ret_list = [kind |-> "NULL", files |-> <<>>]
            /\ ~handed.called
      /\ (dirs # <<>> /\ handed.r >= 0) =>
            /\ handed.called
            /\ handed.dirs = dirs
            /\ ret = 1
            /\ ret_list = [kind |-> "list", files |-> handed.files]
      /\ (lookup_path = <<>> \/ names = {}) => (dirs = <<>> /\ ret = 0)
      /\ ret = 0 <=> dirs = <<>>
      /\ ret = 1 => dirs # <<>>

\* a call that found a directory holding no file: 1 with an empty list
C4_Witness ==
    /\ Done
    /\ dirs # <<>>
    /\ handed.called
    /\ handed.r = 0
    /\ ret = 1
    /\ ret_list = [kind |-> "list", files |-> <<>>]

(* ---- C5 ---- *)
\* C5: the call returns a negative code exactly when the lister was invoked and
\* failed, and then the lister's code; no error of the scan (canonicalization,
\* template derivation, append) is returned.
C5_ErrorPropagation ==
    Done =>
      /\ ret < 0 <=> (handed.called /\ handed.r < 0)
      /\ ret < 0 => ret = handed.r
      /\ ~handed.called => ret = 0
      /\ (handed.called /\ handed.r >= 0) => ret = 1

\* a call whose scan met a canonicalization error and an allocation failure and
\* whose lister failed: the code returned is the lister's
C5_Witness ==
    /\ Done
    /\ \E k \in 1..Len(log) : log[k].r \in OtherChaseErrors
    /\ \E k \in 1..Len(log) : log[k].r = -ENOMEM
    /\ handed.called
    /\ handed.r \in ListerErrors
    /\ ret = handed.r

(* ---- C6 ---- *)
\* C6 as claimed: of any two collected directories, the one found under the
\* root that comes first in lookup_path comes first in the list handed to the
\* lister.
C6_Original ==
    (Done /\ handed.called) =>
        \A k1, k2 \in 1..Len(log) :
           (/\ log[k1].e.pushed
            /\ log[k2].e.pushed
            /\ Priority(log[k1].root) < Priority(log[k2].root))
              => DirIndex(k1) < DirIndex(k2)

\* C6, amended: the list is ordered by unit name first, in the order the set
\* is iterated, and by root within one name: of two directories collected for
\* the same unit name (its own or its template's), the one found under the
\* earlier root comes first; under one root the name's own directory comes
\* before its template's.
C6_RootOrder ==
    (Done /\ handed.called) =>
      /\ DirsFollowLog
      /\ handed.dirs = dirs
      /\ \A k1, k2 \in 1..Len(log) :
            (/\ log[k1].e.pushed
             /\ log[k2].e.pushed
             /\ log[k1].t = log[k2].t
             /\ \/ Priority(log[k1].root) < Priority(log[k2].root)
                \/ /\ log[k1].root = log[k2].root
                   /\ log[k1].e.depth < log[k2].e.depth)
               => DirIndex(k1) < DirIndex(k2)
      /\ \A k1, k2 \in 1..Len(log) :
            (\E a, b \in 1..Len(order) : a < b /\ order[a] = log[k1].t /\ order[b] = log[k2].t)
               => k1 < k2

\* a call over two roots that collected the same name's directory under both
C6_Witness ==
    /\ Done
    /\ handed.called
    /\ Len(lookup_path) = 2
    /\ \E k1, k2 \in 1..Len(log) :
          /\ log[k1].e.pushed
          /\ log[k2].e.pushed
          /\ log[k1].t = log[k2].t
          /\ Priority(log[k1].root) < Priority(log[k2].root)
          /\ handed.dirs[DirIndex(k1)] # handed.dirs[DirIndex(k2)]

(* ---- C9 ---- *)
NoDuplicates(s) == \A a, b \in 1..Len(s) : a # b => s[a] # s[b]

\* C9 as claimed: no directory appears twice in the list handed to the lister.
C9_Original == (Done /\ handed.called) => NoDuplicates(handed.dirs)

\* no candidate path is built twice: no two names share a candidate name
DisjointCandidates ==
    \A n1, n2 \in names : n1 # n2 => CandidateNames(n1) \cap CandidateNames(n2) = {}

\* C9, amended: the list is not de-duplicated; it holds one entry per successful
\* lookup.  No directory appears twice in it when lookup_path holds no root
\* twice, no two names share a candidate name (two instances of one template
\* do) and no two candidate paths canonicalize to the same directory.
C9_NoDuplicates ==
    (Done /\ handed.called) =>
      /\ DirsFollowLog
      /\ handed.dirs = dirs
      /\ (DisjointCandidates /\ ~link) => NoDuplicates(handed.dirs)

\* a call for an instance name that collected two directories under one root
C9_Witness ==
    /\ Done
    /\ handed.called
    /\ DisjointCandidates
    /\ ~link
    /\ \E t \in names : IsInstance(t)
    /\ Len(handed.dirs) >= 3

(* ---- C10 ---- *)
\* pairs still to scan
Remaining ==
    IF ScanDone THEN 0
    ELSE (Len(order) - i) * Len(lookup_path) + (Len(lookup_path) - j) + 1

C10_Bounded ==
    /\ \A n \in names : IsInstance(n) => ~IsInstance(TemplateOf(n))
    /\ \A k \in 1..Len(log) :
          /\ log[k].e.depth <= 1
          /\ log[k].maxdepth <= 1
          /\ log[k].e.depth = 1 =>
                (IsInstance(log[k].t) /\ log[k].e.name = TemplateOf(log[k].t))
          /\ log[k].e.depth = 0 => log[k].e.name = log[k].t
    /\ \A <<t, root>> \in Pairs :
          /\ Cardinality(EntriesOf(t, root)) <= 2
          /\ Cardinality(NameEntries(t, root)) <= 1
          /\ Cardinality(TemplateEntries(t, root)) <= 1
          /\ ~IsInstance(t) => TemplateEntries(t, root) = {}
    /\ Done =>
          \A <<t, root>> \in Pairs :
             /\ Cardinality(NameEntries(t, root)) = 1
             /\ ~IsInstance(t) => Cardinality(EntriesOf(t, root)) = 1
    /\ Len(log) <= 2 * ((Len(order) * Len(lookup_path)) - Remaining)
    /\ (pc = "scan" /\ ScanDone) => (ENABLED ReturnEmpty \/ ENABLED ListFiles)

\* C10: unit_file_find_dirs recurses at most once per (root, name) pair, as
\* the template of an instance name is no instance name: at most two candidate
\* directories are looked up per pair, exactly one for a name that is no
\* instance, and the call ends: every step of the scan leaves fewer pairs to
\* scan, and once none is left the call can return.
C10_Termination ==
    /\ []C10_Bounded
    /\ [][pc = "scan" => (pc' = "done" \/ Remaining' < Remaining)]_vars

\* a call that looked up two candidates for an instance name and one for a
\* plain name
C10_Witness ==
    /\ Done
    /\ \E <<t, root>> \in Pairs :
          IsInstance(t) /\ Cardinality(EntriesOf(t, root)) = 2
    /\ \E <<t, root>> \in Pairs :
          ~IsInstance(t) /\ Cardinality(EntriesOf(t, root)) = 1

----------------------------------------------------------------------------
(* Properties of the drop-in writer, stated over the call made (DropinSpec). *)

\* the escaped fragment name of the call
Escaped == xescape(call.name, {"/", "."})

\* reading an escaped name back: \xHH is the character of code HH
RECURSIVE Unescape(_)
Unescape(e) ==
    IF e = <<>> THEN <<>>
    ELSE IF Head(e) = "\\" /\ Len(e) >= 4 /\ e[2] = "x"
    THEN <<CHOOSE c \in DOMAIN CharCode :
                <<hexchar(CharCode[c] \div 16), hexchar(CharCode[c])>> = <<e[3], e[4]>>>>
         \o Unescape(SubSeq(e, 5, Len(e)))
    ELSE <<Head(e)>> \o Unescape(Tail(e))

\* <dir>/<unit>.d and <dir>/<unit>.d/<level>-<escaped name>.conf
ExpectedDir == call.dir \o <<"/">> \o call.unit \o <<".", "d">>
ExpectedFile ==
    ExpectedDir \o <<"/">> \o Decimal(call.level) \o <<"-">> \o Escaped
                \o <<".", "c", "o", "n", "f">>

OutputsUnset == call.p = <<>> /\ call.q = <<>>

FsUnchanged == fsDirs = call.dirs0 /\ fsFiles = call.files0

\* exactly the file at q was created or overwritten, and it holds data
OneFileWritten(q, data) ==
    /\ DOMAIN fsFiles = DOMAIN call.files0 \cup {q}
    /\ fsFiles[q] = data
    /\ \A f \in DOMAIN call.files0 : f # q => fsFiles[f] = call.files0[f]

(* ---- C7 ---- *)
\* C7 as claimed: whenever write_drop_in returns an error the file system is
\* as it was before the call, no file and no directory created or modified; on
\* success exactly the file <dir>/<unit>.d/<level>-<escaped name>.conf is
\* created or overwritten and holds exactly data.
C7_Original ==
    call.op = "write_drop_in" =>
       /\ call.r < 0 => FsUnchanged
       /\ call.r >= 0 => OneFileWritten(ExpectedFile, call.data)

\* C7, amended: whenever write_drop_in returns an error no file was created or
\* modified.  When the error is drop_in_file's (invalid fragment name, or no
\* memory) no directory was created either; when it is the write's, the
\* directories on the way to <dir>/<unit>.d that were missing may have been
\* created, and nothing else.  On success (0) the directory <dir>/<unit>.d
\* exists and exactly the file <dir>/<unit>.d/<level>-<escaped name>.conf is
\* created or overwritten and holds exactly data.
C7_FailureKeepsFiles ==
    call.op \in {"write_drop_in", "write_drop_in_format"} =>
       /\ call.r <= 0
       /\ call.dirs0 \subseteq fsDirs
       /\ fsDirs \ call.dirs0 \subseteq Range(Ancestors(ExpectedDir))
       /\ call.r < 0 =>
             /\ fsFiles = call.files0
             /\ (~filename_is_valid(Escaped) \/ OutputsUnset) => FsUnchanged
       /\ call.r = 0 =>
             /\ call.p = ExpectedDir
             /\ call.q = ExpectedFile
             /\ ExpectedDir \in fsDirs
             /\ OneFileWritten(ExpectedFile, call.data)

\* a write_drop_in call that made the drop-in directory and then failed to
\* write the file
C7_Witness ==
    /\ call.op = "write_drop_in"
    /\ call.r < 0
    /\ call.q = ExpectedFile
    /\ ExpectedDir \in fsDirs \ call.dirs0
    /\ fsFiles = call.files0

(* ---- C8 ---- *)
\* the escaped name holds no '/' and no '.', and reads back as the name
EscapedFaithfully ==
    /\ "/" \notin Range(Escaped)
    /\ "." \notin Range(Escaped)
    /\ Unescape(Escaped) = call.name

\* C8 as claimed: with e the escaped name, drop_in_file returns -EINVAL and
\* leaves both outputs unset if e is no valid filename, and otherwise returns 0
\* with the outputs <dir>/<unit>.d and <dir>/<unit>.d/<level>-<e>.conf; the
\* result depends on the four inputs only and the file system is not touched.
C8_Original ==
    call.op = "drop_in_file" =>
       /\ EscapedFaithfully
       /\ FsUnchanged
       /\ IF ~filename_is_valid(Escaped)
          THEN call.r = -EINVAL /\ OutputsUnset
          ELSE call.r = 0 /\ call.p = ExpectedDir /\ call.q = ExpectedFile

\* C8, amended: the same unless an allocation of the call fails; the call then
\* returns -ENOMEM (or still -EINVAL, for an invalid e whose escaping was
\* allocated) with both outputs unset.  Without allocation failure the result
\* is the one of the four inputs.
C8_DropInFile ==
    call.op = "drop_in_file" =>
       /\ EscapedFaithfully
       /\ FsUnchanged
       /\ call.r \in {0, -EINVAL, -ENOMEM}
       /\ call.r = -ENOMEM => call.alloc # 0
       /\ call.r < 0 => OutputsUnset
       /\ call.r # -ENOMEM =>
             IF ~filename_is_valid(Escaped)
             THEN call.r = -EINVAL
             ELSE call.r = 0 /\ call.p = ExpectedDir /\ call.q = ExpectedFile
       /\ (call.alloc # 0 /\ filename_is_valid(Escaped)) => call.r = -ENOMEM

\* a drop_in_file call on a name with a character to escape that succeeded
C8_Witness ==
    /\ call.op = "drop_in_file"
    /\ call.r = 0
    /\ Escaped # call.name
    /\ call.q = ExpectedFile
====
